---- MODULE Spec2Model ----
(***************************************************************************)
(* Worker service (src/src/worker-service/main.py): the main thread runs   *)
(* run_worker, a daemon thread serves /ready and /metrics, and SIGTERM /   *)
(* SIGINT run signal_handler in the main thread between two bytecodes.     *)
(*                                                                         *)
(* Time is discrete: one Tick is one second of time.sleep.  Every step of  *)
(* the worker other than a sleep takes no time, so time advances only      *)
(* while the worker sleeps.  A /metrics request does no blocking call and  *)
(* is served within the tick in which it started.                          *)
(***************************************************************************)
EXTENDS Integers

\* ---- bounds of the model ------------------------------------------------
\* Signals are delivered while the clock is below MaxTime; after a signal
\* the clock runs on until the loop has exited.
MaxTime == 5
\* JOB_INTERVAL is drawn from -1 .. MaxInterval.
MaxInterval == 2
\* Number of SIGTERM/SIGINT deliveries.
MaxSignals == 2

\* ---- program constants --------------------------------------------------
\* time.sleep(2) in process_job
BASE_WORK == 2
\* time.sleep(1) in process_job under FEATURE_BETA
BETA_WORK == 1
\* time.sleep(1) in the inter-job wait
POLL == 1
\* time.sleep(5) in the except clause
BACKOFF == 5

NoResp == [status |-> "none"]

VARIABLES
    \* module globals
    FEATURE_BETA, JOB_INTERVAL, start_time, ready, running, jobs_processed,
    \* run_worker (main thread)
    pc,          \* position of the main thread
    job_id,      \* local job_id: the number n of "job-{n}"
    tmp,         \* value loaded by jobs_processed += 1 before the store
    i,           \* iterations of "for _ in range(JOB_INTERVAL)" completed
    sleepLeft,   \* seconds left of the current time.sleep
    summary,     \* total logged on exit, -1 before
    \* request thread
    mpc,         \* position of the request thread
    built,       \* the dict metrics() has built and is about to return
    seen,        \* jobs_processed as the last metrics() read it, -1 if there was
                 \* none or jobs_processed has been stored since
    reads,       \* metrics() reads since jobs_processed was last stored (2: two
                 \* or more)
    readyResp,   \* the /ready response being sent
    \* environment and history
    now,         \* clock, seconds since start
    signals,     \* signals delivered so far
    sigTime,     \* time of the first signal, -1 before
    sigPc,       \* position of the main thread at the first signal
    sigCount,    \* jobs_processed at the first signal, -1 before
    returned,    \* calls of process_job that have returned True
    failedId,    \* job_id of the attempt that raised last, 0 after a success
    errTime,     \* time the except clause was entered, -1 outside it
    errAfterSig  \* process_job raised after the first signal

globals == <<FEATURE_BETA, JOB_INTERVAL, start_time, ready, running, jobs_processed>>
worker == <<pc, job_id, tmp, i, sleepLeft, summary>>
server == <<mpc, built, seen, reads, readyResp>>
history == <<now, signals, sigTime, sigPc, sigCount, returned, failedId, errTime, errAfterSig>>
vars == <<globals, worker, server, history>>

config == <<FEATURE_BETA, JOB_INTERVAL, start_time>>

InJob == {"call", "work", "beta"}
InWait == {"for_next", "wait_check", "wait_sleep"}
Sleeping == {"work", "beta", "wait_sleep", "backoff"}

Init ==
    /\ FEATURE_BETA \in BOOLEAN
    /\ JOB_INTERVAL \in -1 .. MaxInterval
    /\ start_time = 0
    /\ ready = TRUE
    /\ running = TRUE
    /\ jobs_processed = 0
    /\ pc = "start"
    /\ job_id = 0
    /\ tmp = 0
    /\ i = 0
    /\ sleepLeft = 0
    /\ summary = -1
    /\ mpc = "idle"
    /\ built = NoResp
    /\ seen = -1
    /\ reads = 0
    /\ readyResp = NoResp
    /\ now = 0
    /\ signals = 0
    /\ sigTime = -1
    /\ sigPc = "none"
    /\ sigCount = -1
    /\ returned = 0
    /\ failedId = 0
    /\ errTime = -1
    /\ errAfterSig = FALSE

\* ---- run_worker ---------------------------------------------------------

\* signal.signal(SIGTERM, ...); signal.signal(SIGINT, ...)
RegisterHandlers ==
    /\ pc = "start"
    /\ pc' = "loop"
    /\ UNCHANGED <<globals, job_id, tmp, i, sleepLeft, summary, server, history>>

\* the final summary logging the last job id instead of the counter
LoopCheck_wrongTotal ==
    /\ pc = "loop"
    /\ IF running
          THEN pc' = "synth" /\ UNCHANGED summary
          ELSE pc' = "done" /\ summary' = job_id
    /\ UNCHANGED <<globals, job_id, tmp, i, sleepLeft, server, history>>

\* while running: ... ; after the loop, log the total
LoopCheck ==
    /\ pc = "loop"
    /\ IF running
          THEN pc' = "synth" /\ UNCHANGED summary
          ELSE pc' = "done" /\ summary' = jobs_processed
    /\ UNCHANGED <<globals, job_id, tmp, i, sleepLeft, server, history>>

\* job_id = f"job-{jobs_processed + 1}"
SynthJobId ==
    /\ pc = "synth"
    /\ job_id' = jobs_processed + 1
    /\ pc' = "call"
    /\ UNCHANGED <<globals, tmp, i, sleepLeft, summary, server, history>>

\* the job counted when it starts instead of when it has returned
ProcessJobStart_countsEarly ==
    /\ pc = "call"
    /\ pc' = "work"
    /\ sleepLeft' = BASE_WORK
    /\ jobs_processed' = jobs_processed + 1
    /\ UNCHANGED <<config, ready, running, job_id, tmp, i, summary, server, history>>

\* process_job: log, then time.sleep(2)
ProcessJobStart ==
    /\ pc = "call"
    /\ pc' = "work"
    /\ sleepLeft' = BASE_WORK
    /\ UNCHANGED <<globals, job_id, tmp, i, summary, server, history>>

\* process_job running the beta step whatever FEATURE_BETA says
ProcessJobBaseDone_alwaysBeta ==
    /\ pc = "work"
    /\ sleepLeft = 0
    /\ pc' = "beta"
    /\ sleepLeft' = BETA_WORK
    /\ UNCHANGED <<globals, job_id, tmp, i, summary, server, history>>

\* process_job after time.sleep(2): the beta step, or return True
ProcessJobBaseDone ==
    /\ pc = "work"
    /\ sleepLeft = 0
    /\ IF FEATURE_BETA
          THEN /\ pc' = "beta"
               /\ sleepLeft' = BETA_WORK
               /\ UNCHANGED <<returned, failedId>>
          ELSE /\ pc' = "inc_load"
               /\ returned' = returned + 1
               /\ failedId' = 0
               /\ UNCHANGED sleepLeft
    /\ UNCHANGED <<globals, job_id, tmp, i, summary, server, now, signals, sigTime,
                   sigPc, sigCount, errTime, errAfterSig>>

\* process_job after the beta time.sleep(1): return True
ProcessJobBetaDone ==
    /\ pc = "beta"
    /\ sleepLeft = 0
    /\ pc' = "inc_load"
    /\ returned' = returned + 1
    /\ failedId' = 0
    /\ UNCHANGED <<globals, job_id, tmp, i, sleepLeft, summary, server, now, signals,
                   sigTime, sigPc, sigCount, errTime, errAfterSig>>

\* an Exception raised inside process_job reaches "except Exception as e"
ProcessJobRaise ==
    /\ pc \in InJob
    /\ pc' = "except"
    /\ failedId' = job_id
    /\ errAfterSig' = (errAfterSig \/ ~running)
    /\ UNCHANGED <<globals, job_id, tmp, i, sleepLeft, summary, server, now, signals,
                   sigTime, sigPc, sigCount, returned, errTime>>

\* the except clause handling the error and counting the failed job as done
HandleException_counts ==
    /\ pc = "except"
    /\ pc' = "backoff"
    /\ sleepLeft' = BACKOFF
    /\ errTime' = now
    /\ jobs_processed' = jobs_processed + 1
    /\ UNCHANGED <<config, ready, running, job_id, tmp, i, summary, server, now,
                   signals, sigTime, sigPc, sigCount, returned, failedId, errAfterSig>>

\* except Exception as e: logger.error(...); time.sleep(5)
HandleException ==
    /\ pc = "except"
    /\ pc' = "backoff"
    /\ sleepLeft' = BACKOFF
    /\ errTime' = now
    /\ UNCHANGED <<globals, job_id, tmp, i, summary, server, now, signals, sigTime,
                   sigPc, sigCount, returned, failedId, errAfterSig>>

\* the retry path setting running again after the backoff
BackoffDone_rearms ==
    /\ pc = "backoff"
    /\ sleepLeft = 0
    /\ pc' = "loop"
    /\ errTime' = -1
    /\ running' = TRUE
    /\ UNCHANGED <<config, ready, jobs_processed, job_id, tmp, i, sleepLeft, summary,
                   server, now, signals, sigTime, sigPc, sigCount, returned, failedId, errAfterSig>>

\* time.sleep(5) is over: back to "while running"
BackoffDone ==
    /\ pc = "backoff"
    /\ sleepLeft = 0
    /\ pc' = "loop"
    /\ errTime' = -1
    /\ UNCHANGED <<globals, job_id, tmp, i, sleepLeft, summary, server, now, signals,
                   sigTime, sigPc, sigCount, returned, failedId, errAfterSig>>

\* jobs_processed += 1, first half: load the global
IncLoad ==
    /\ pc = "inc_load"
    /\ tmp' = jobs_processed
    /\ pc' = "inc_store"
    /\ UNCHANGED <<globals, job_id, i, sleepLeft, summary, server, history>>

\* the store adding the increment twice
IncStore_twice ==
    /\ pc = "inc_store"
    /\ jobs_processed' = tmp + 2
    /\ pc' = "for_next"
    /\ i' = 0
    /\ seen' = -1
    /\ reads' = 0
    /\ UNCHANGED <<config, ready, running, job_id, tmp, sleepLeft, summary, mpc, built,
                   readyResp, history>>

\* jobs_processed += 1, second half: store the sum; then "for _ in range(...)"
IncStore ==
    /\ pc = "inc_store"
    /\ jobs_processed' = tmp + 1
    /\ pc' = "for_next"
    /\ i' = 0
    /\ seen' = -1
    /\ reads' = 0
    /\ UNCHANGED <<config, ready, running, job_id, tmp, sleepLeft, summary, mpc, built,
                   readyResp, history>>

\* for _ in range(JOB_INTERVAL): next iteration, or the loop is exhausted
ForNext ==
    /\ pc = "for_next"
    /\ pc' = IF i < JOB_INTERVAL THEN "wait_check" ELSE "loop"
    /\ UNCHANGED <<globals, job_id, tmp, i, sleepLeft, summary, server, history>>

\* the wait sleeping without looking at running
WaitCheck_nobreak ==
    /\ pc = "wait_check"
    /\ pc' = "wait_sleep"
    /\ sleepLeft' = POLL
    /\ UNCHANGED <<globals, job_id, tmp, i, summary, server, history>>

\* the break leaving the wait straight into the next job, past "while running"
WaitCheck_restarts ==
    /\ pc = "wait_check"
    /\ IF ~running
          THEN pc' = "synth" /\ UNCHANGED sleepLeft
          ELSE pc' = "wait_sleep" /\ sleepLeft' = POLL
    /\ UNCHANGED <<globals, job_id, tmp, i, summary, server, history>>

\* if not running: break; else time.sleep(1)
WaitCheck ==
    /\ pc = "wait_check"
    /\ IF ~running
          THEN pc' = "loop" /\ UNCHANGED sleepLeft
          ELSE pc' = "wait_sleep" /\ sleepLeft' = POLL
    /\ UNCHANGED <<globals, job_id, tmp, i, summary, server, history>>

\* time.sleep(1) of the wait is over
WaitSleepDone ==
    /\ pc = "wait_sleep"
    /\ sleepLeft = 0
    /\ i' = i + 1
    /\ pc' = "for_next"
    /\ UNCHANGED <<globals, job_id, tmp, sleepLeft, summary, server, history>>

\* ---- signal_handler -----------------------------------------------------

\* the handler flipping running instead of clearing it
signal_handler_toggle ==
    /\ pc # "start"
    /\ signals < MaxSignals
    /\ now <= MaxTime
    /\ running' = ~running
    /\ signals' = signals + 1
    /\ sigTime' = IF sigTime = -1 THEN now ELSE sigTime
    /\ sigPc' = IF sigTime = -1 THEN pc ELSE sigPc
    /\ sigCount' = IF sigTime = -1 THEN jobs_processed ELSE sigCount
    /\ UNCHANGED <<config, ready, jobs_processed, worker, server, now, returned,
                   failedId, errTime, errAfterSig>>

\* the handler also taking the service out of readiness
signal_handler_notReady ==
    /\ pc # "start"
    /\ signals < MaxSignals
    /\ now <= MaxTime
    /\ running' = FALSE
    /\ ready' = FALSE
    /\ signals' = signals + 1
    /\ sigTime' = IF sigTime = -1 THEN now ELSE sigTime
    /\ sigPc' = IF sigTime = -1 THEN pc ELSE sigPc
    /\ sigCount' = IF sigTime = -1 THEN jobs_processed ELSE sigCount
    /\ UNCHANGED <<config, jobs_processed, worker, server, now, returned,
                   failedId, errTime, errAfterSig>>

\* the handler also clearing the counter on shutdown
signal_handler_resetsCount ==
    /\ pc # "start"
    /\ signals < MaxSignals
    /\ now <= MaxTime
    /\ running' = FALSE
    /\ jobs_processed' = 0
    /\ signals' = signals + 1
    /\ sigTime' = IF sigTime = -1 THEN now ELSE sigTime
    /\ sigPc' = IF sigTime = -1 THEN pc ELSE sigPc
    /\ sigCount' = IF sigTime = -1 THEN jobs_processed ELSE sigCount
    /\ UNCHANGED <<config, ready, worker, server, now, returned,
                   failedId, errTime, errAfterSig>>

\* running = False; an interrupted time.sleep resumes for its remaining time
signal_handler ==
    /\ pc # "start"
    /\ signals < MaxSignals
    /\ now <= MaxTime
    /\ running' = FALSE
    /\ signals' = signals + 1
    /\ sigTime' = IF sigTime = -1 THEN now ELSE sigTime
    /\ sigPc' = IF sigTime = -1 THEN pc ELSE sigPc
    /\ sigCount' = IF sigTime = -1 THEN jobs_processed ELSE sigCount
    /\ UNCHANGED <<config, ready, jobs_processed, worker, server, now, returned,
                   failedId, errTime, errAfterSig>>

\* ---- request thread -----------------------------------------------------

\* readiness(): the answer is chosen from the ready flag
readiness ==
    /\ mpc = "idle"
    /\ readyResp' = IF ready THEN [status |-> "ready", code |-> 200]
                             ELSE [status |-> "not ready", code |-> 503]
    /\ mpc' = "answered"
    /\ UNCHANGED <<globals, worker, built, seen, reads, history>>

\* readiness(): return jsonify(...), code
ReadinessReturn ==
    /\ mpc = "answered"
    /\ mpc' = "idle"
    /\ readyResp' = NoResp
    /\ UNCHANGED <<globals, worker, built, seen, reads, history>>

\* metrics() counting the request in jobs_processed
MetricsRead_counts ==
    /\ mpc = "idle"
    /\ built' = [status |-> "ok",
                 service |-> "worker-service",
                 uptime_seconds |-> now - start_time,
                 jobs_processed |-> jobs_processed,
                 job_interval |-> JOB_INTERVAL,
                 beta_enabled |-> FEATURE_BETA]
    /\ mpc' = "built"
    /\ seen' = jobs_processed
    /\ reads' = IF reads < 2 THEN reads + 1 ELSE reads
    /\ jobs_processed' = jobs_processed + 1
    /\ UNCHANGED <<config, ready, running, worker, readyResp, history>>

\* metrics(): uptime is computed and the dict is built from the globals
MetricsRead ==
    /\ mpc = "idle"
    /\ built' = [status |-> "ok",
                 service |-> "worker-service",
                 uptime_seconds |-> now - start_time,
                 jobs_processed |-> jobs_processed,
                 job_interval |-> JOB_INTERVAL,
                 beta_enabled |-> FEATURE_BETA]
    /\ mpc' = "built"
    /\ seen' = jobs_processed
    /\ reads' = IF reads < 2 THEN reads + 1 ELSE reads
    /\ UNCHANGED <<globals, worker, readyResp, history>>

\* metrics(): return jsonify(...), 200
MetricsReturn ==
    /\ mpc = "built"
    /\ mpc' = "idle"
    /\ built' = NoResp
    /\ UNCHANGED <<globals, worker, seen, reads, readyResp, history>>

\* ---- time ---------------------------------------------------------------

\* one second of the time.sleep the main thread is in
Tick ==
    /\ pc \in Sleeping
    /\ sleepLeft > 0
    /\ mpc = "idle"
    /\ now < MaxTime \/ ~running
    /\ now' = now + 1
    /\ sleepLeft' = sleepLeft - 1
    /\ UNCHANGED <<globals, pc, job_id, tmp, i, summary, server, signals, sigTime,
                   sigPc, sigCount, returned, failedId, errTime, errAfterSig>>

WorkerStep ==
    \/ RegisterHandlers
    \/ LoopCheck
    \/ SynthJobId
    \/ ProcessJobStart
    \/ ProcessJobBaseDone
    \/ ProcessJobBetaDone
    \/ HandleException
    \/ BackoffDone
    \/ IncLoad
    \/ IncStore
    \/ ForNext
    \/ WaitCheck
    \/ WaitSleepDone

RequestStep ==
    \/ readiness
    \/ ReadinessReturn
    \/ MetricsRead
    \/ MetricsReturn

Next ==
    \/ WorkerStep
    \/ ProcessJobRaise
    \/ signal_handler
    \/ RequestStep
    \/ Tick

Spec == Init /\ [][Next]_vars

\* The main thread keeps running and the request thread finishes the request
\* it has started.  Time cannot be held back for ever by requests that each
\* take no time: whenever a sleep can advance again and again, it does.
LiveSpec ==
    /\ Init
    /\ [][Next]_vars
    /\ WF_vars(WorkerStep)
    /\ WF_vars(RequestStep)
    /\ SF_vars(Tick)

\* ---- claims ------------------------------------------------------------

\* Longest time from the first termination request to the exit of the loop,
\* by where the request found the main thread: the wait polls running every
\* POLL; process_job and the backoff sleep are not interrupted.
ShutdownBound ==
    CASE sigPc \in InWait -> POLL
      [] sigPc \in InJob \cup {"synth"} ->
            BASE_WORK + (IF FEATURE_BETA THEN BETA_WORK ELSE 0)
                      + (IF errAfterSig THEN BACKOFF ELSE 0)
      [] sigPc \in {"except", "backoff"} -> BACKOFF
      [] OTHER -> 0

\* C1: jobs_processed is the number of process_job calls that have returned
\* and whose increment has been stored (one less than the calls returned
\* while the increment is in flight); it starts at 0, and every step leaves
\* it alone or is the store of the increment and adds exactly 1.
C1_CountsCompletedJobs ==
    /\ [](jobs_processed =
            IF pc \in {"inc_load", "inc_store"} THEN returned - 1 ELSE returned)
    /\ [][\/ jobs_processed' = jobs_processed
          \/ pc = "inc_store" /\ jobs_processed' = jobs_processed + 1]_vars

C1_Witness ==
    /\ jobs_processed = 2
    /\ returned = 2
    /\ signals >= 1
    /\ mpc = "built"

\* C2: a termination request that arrives during the inter-job wait is
\* followed by the exit of the loop at most POLL (1) time unit later,
\* whatever JOB_INTERVAL is and however many iterations remain.
C2_WaitExitsWithinPoll ==
    sigPc \in InWait => now - sigTime <= POLL

C2_Witness ==
    /\ sigPc = "wait_sleep"
    /\ pc = "done"
    /\ now - sigTime = POLL
    /\ i < JOB_INTERVAL

\* C3 as stated: a termination request arriving at any point of the loop,
\* process_job included, is followed by the exit of the loop at most POLL (1)
\* time unit later.
C3_Original ==
    sigTime # -1 => now - sigTime <= POLL

\* C3 as amended: the loop exits within ShutdownBound of the request: 1 time
\* unit from the wait, the job work (2, or 3 with FEATURE_BETA) from
\* process_job plus the backoff of 5 if that job raises, 5 from the backoff.
C3_ExitsWithinShutdownBound ==
    sigTime # -1 => now - sigTime <= ShutdownBound

C3_Witness ==
    /\ sigPc = "work"
    /\ pc = "done"
    /\ FEATURE_BETA
    /\ ~errAfterSig
    /\ now - sigTime = BASE_WORK + BETA_WORK

\* C4: a signal never changes jobs_processed and leaves running false; a
\* signal delivered when running is already false changes nothing of the
\* program's state.
C4_SecondSignalNoOp ==
    [][signals' = signals + 1 =>
          (/\ jobs_processed' = jobs_processed
           /\ ~running'
           /\ (~running => UNCHANGED <<globals, worker, server>>))]_vars

C4_Witness ==
    /\ signals = 2
    /\ ~running
    /\ pc = "done"
    /\ jobs_processed >= 1

\* C5: when process_job raises, control goes to the except clause and not out
\* of the loop, jobs_processed is left unchanged by the raise, the handler and
\* the backoff, the backoff lasts exactly BACKOFF (5) time units and leads
\* back to the loop test, the job attempted after a failure carries the id of
\* the failed one, and the loop is only ever left with running false.
C5_ErrorBacksOffAndRetries ==
    /\ [][(pc \in InJob /\ pc' \notin InJob \cup {"inc_load"}) =>
             (pc' = "except" /\ jobs_processed' = jobs_processed)]_vars
    /\ [][(pc = "except" /\ pc' # "except") => pc' = "backoff"]_vars
    /\ [][(pc \in {"except", "backoff"}) => (jobs_processed' = jobs_processed)]_vars
    /\ [][(pc = "backoff" /\ pc' # "backoff") =>
             (pc' = "loop" /\ now - errTime = BACKOFF)]_vars
    /\ []((pc \in InJob /\ failedId # 0) => job_id = failedId)
    /\ [](pc = "done" => ~running)

C5_Witness ==
    /\ pc = "work"
    /\ failedId # 0
    /\ job_id = failedId
    /\ job_id = jobs_processed + 1
    /\ running
    /\ now >= BACKOFF

\* C6: the jobs_processed a /metrics response carries is, when the response
\* is returned, at most the number of process_job calls that have returned,
\* at most one less than it, and a value jobs_processed has held.
C6_MetricsSeesCommittedCount ==
    [][(mpc = "built" /\ mpc' = "idle") =>
          (/\ built.jobs_processed <= returned
           /\ built.jobs_processed >= returned - 1
           /\ built.jobs_processed <= jobs_processed
           /\ built.jobs_processed >= 0)]_vars

C6_Witness ==
    /\ mpc = "built"
    /\ built.jobs_processed = 1
    /\ jobs_processed = 2
    /\ returned = 2

\* C7: no step of metrics() changes running, jobs_processed, ready,
\* start_time, JOB_INTERVAL or FEATURE_BETA; the job_interval it reports is
\* JOB_INTERVAL; and a call that follows another with no store of
\* jobs_processed between the two reports the same jobs_processed.
C7_MetricsReadOnly ==
    /\ [][(mpc' # mpc /\ "built" \in {mpc, mpc'}) => UNCHANGED globals]_vars
    /\ [][(mpc = "idle" /\ mpc' = "built") =>
             (/\ built'.job_interval = JOB_INTERVAL
              /\ built'.beta_enabled = FEATURE_BETA
              /\ (seen # -1 => built'.jobs_processed = seen))]_vars

C7_Witness ==
    /\ mpc = "built"
    /\ reads = 2
    /\ built.jobs_processed = 1
    /\ built.job_interval = JOB_INTERVAL

\* C8: after a termination request the loop is eventually left; once it is
\* left the main thread stays there, no job returns and jobs_processed does
\* not change; the total logged on exit is jobs_processed.
C8_StopsAndStaysStopped ==
    /\ (~running) ~> (pc = "done")
    /\ [][pc = "done" =>
             (/\ pc' = "done"
              /\ jobs_processed' = jobs_processed
              /\ returned' = returned
              /\ summary' = summary)]_vars
    /\ [](pc = "done" => summary = jobs_processed)

C8_Witness ==
    /\ pc = "done"
    /\ summary = jobs_processed
    /\ jobs_processed >= 1
    /\ sigPc = "work"

\* C9: ready is true in every state, and every /ready response is
\* "ready" with 200.
C9_AlwaysReady ==
    /\ ready
    /\ (mpc = "answered" => readyResp = [status |-> "ready", code |-> 200])

C9_Witness ==
    /\ mpc = "answered"
    /\ readyResp.code = 200
    /\ pc = "done"
    /\ ~running
    /\ failedId # 0

\* C10: running is true initially, and no step makes it true once it is
\* false.
C10_RunningNeverReverts ==
    /\ running = TRUE
    /\ [][~running => ~running']_vars

C10_Witness ==
    /\ ~running
    /\ signals = 2
    /\ errAfterSig
    /\ jobs_processed >= 1
    /\ pc = "done"

\* C11 as stated: one primitive is held around every access to jobs_processed
\* and running, so between the load and the store of jobs_processed += 1 no
\* other access happens: metrics() does not read jobs_processed there and
\* signal_handler does not write running there.
C11_Original ==
    [][(pc = "inc_store" /\ pc' = "inc_store") =>
          (/\ running' = running
           /\ ~(mpc = "idle" /\ mpc' = "built"))]_vars

\* C11 as amended: no primitive guards the two globals; accesses of metrics()
\* and signal_handler fall between the load and the store of the increment.
\* jobs_processed is written by the store of run_worker only and running by
\* signal_handler only, so the value loaded is still the value of
\* jobs_processed when it is stored back plus 1: no update is lost.
C11_SingleWriterNoLostUpdate ==
    /\ []((pc = "inc_store") => (tmp = jobs_processed))
    /\ [][(jobs_processed' # jobs_processed) =>
             (pc = "inc_store" /\ pc' = "for_next")]_vars
    /\ [][(running' # running) => (signals' = signals + 1)]_vars

C11_Witness ==
    /\ pc = "inc_store"
    /\ sigPc = "inc_store"
    /\ ~running
    /\ mpc = "built"
    /\ built.jobs_processed = tmp
    /\ returned = tmp + 1

\* C12: from the first termination request on, jobs_processed is the value it
\* had at the request or that value plus 1; the job counted after the request
\* is the one that was in flight or had passed "while running" when the
\* request came; and once running is false no further job is begun.
C12_AtMostOneJobAfterSignal ==
    /\ []((sigTime # -1) => (jobs_processed - sigCount) \in {0, 1})
    /\ []((sigTime # -1 /\ jobs_processed = sigCount + 1) =>
             sigPc \in InJob \cup {"synth", "inc_load", "inc_store"})
    /\ [][(~running /\ pc # "synth") => (pc' # "synth")]_vars

C12_Witness ==
    /\ pc = "done"
    /\ sigPc = "synth"
    /\ sigCount = 1
    /\ jobs_processed = 2
====
